---------------------------- MODULE Spec2Model ----------------------------
(***************************************************************************)
(* A model of the Airtable adapter of the affiliate lead dashboard         *)
(* (lib/airtable.ts): the record decoders (parseText, parseNumber,         *)
(* normalizeStatus, mapRecordToLead, getFirstTextField), the paginated     *)
(* fetcher (fetchAllRecords) and the comment thread loader                 *)
(* (fetchAffiliateCommentsForLead).                                        *)
(*                                                                         *)
(* JavaScript strings are sequences of one-character strings, so that      *)
(* trim, includes, toLowerCase and Number() are computed character by      *)
(* character.  A JavaScript value is a record of one fixed shape, tagged   *)
(* by the result of typeof (arrays and null are told apart).               *)
(***************************************************************************)
EXTENDS Integers, Sequences, FiniteSets, TLC

VARIABLES
    config,     \* the module-level config object
    pc,         \* fetchAffiliateCommentsForLead: where the call is
    leadId,     \* fetchAffiliateCommentsForLead: its argument
    call,       \* fetchAllRecords: running, returned or threw
    fetched,    \* fetchAllRecords: the local array `records`
    offset,     \* fetchAllRecords: the local `offset`
    requests,   \* the requests of the running fetchAllRecords call
    responses,  \* the responses the running fetchAllRecords call has got
    primary,    \* how the primary (filtered) query ended
    records,    \* fetchAffiliateCommentsForLead: the local `records`
    result,     \* what fetchAffiliateCommentsForLead returned
    error,      \* what fetchAffiliateCommentsForLead threw
    raw,        \* decoding: the AirtableRecord given to a decoder
    lead,       \* decoding: mapRecordToLead's result
    comment,    \* decoding: the comment the thread loader maps a record to
    op,         \* fetchLeads, createLead or sendAffiliateMessage: which runs
    opState,    \* that operation: awaiting its response, returned or threw
    input,      \* that operation's arguments
    sent,       \* the requests that operation has issued
    reply,      \* the response that operation has got
    output,     \* what that operation returned
    message,    \* the message of the Error an operation threw
    leads,              \* App: the leads state
    isRefreshing,       \* App
    isInitialLoading,   \* App
    appError,           \* App: the error state
    formData,           \* LeadForm
    isSubmitting,       \* LeadForm
    selectedLead,       \* LeadsTable
    isOpen,             \* LeadsTable
    messageText,        \* LeadsTable
    isSendingMessage,   \* LeadsTable
    comments,           \* LeadsTable
    isCommentsLoading,  \* LeadsTable
    tasks       \* the calls of the async handlers, in the order they were
                \* made: what each awaits, its closure, what it was given

vars == <<config, pc, leadId, call, fetched, offset, requests, responses,
          primary, records, result, error, raw, lead, comment,
          op, opState, input, sent, reply, output, message,
          leads, isRefreshing, isInitialLoading, appError, formData,
          isSubmitting, selectedLead, isOpen, messageText, isSendingMessage,
          comments, isCommentsLoading, tasks>>

fetchVars == <<pc, leadId, call, fetched, offset, requests, responses,
               primary, records, result, error>>

decodeVars == <<raw, lead, comment>>

opVars == <<op, opState, input, sent, reply, output>>

adapterVars == <<opVars, message>>

appVars == <<leads, isRefreshing, isInitialLoading, appError>>

formVars == <<formData, isSubmitting>>

tableVars == <<selectedLead, isOpen, messageText, isSendingMessage, comments,
               isCommentsLoading>>

uiVars == <<appVars, formVars, tableVars, tasks>>

----------------------------------------------------------------------------
(* Bounds of the model.                                                    *)

\* Records one fetchAllRecords call may receive, over all its pages.
MaxRecords == 2

\* Length of the generated raw strings given to the decoders.
MaxLen == 3

\* Calls of the async handlers of the components in one behaviour, the
\* load of the mount effect included.
MaxCalls == 4

\* Submits of the lead form in one behaviour.
MaxSubmits == 2

----------------------------------------------------------------------------
(* JavaScript strings.                                                     *)

UpperAlpha == <<"A","B","C","D","E","F","G","H","I","J","K","L","M",
                "N","O","P","Q","R","S","T","U","V","W","X","Y","Z">>

LowerAlpha == <<"a","b","c","d","e","f","g","h","i","j","k","l","m",
                "n","o","p","q","r","s","t","u","v","w","x","y","z">>

Digits == <<"0","1","2","3","4","5","6","7","8","9">>

WhiteSpace == {" ", "\t", "\n", "\r"}

IsDigit(c) == \E i \in 1..10 : Digits[i] = c

DigitVal(c) == (CHOOSE i \in 1..10 : Digits[i] = c) - 1

ToLowerChar(c) ==
    IF \E i \in 1..26 : UpperAlpha[i] = c
    THEN LowerAlpha[CHOOSE i \in 1..26 : UpperAlpha[i] = c]
    ELSE c

ToUpperChar(c) ==
    IF \E i \in 1..26 : LowerAlpha[i] = c
    THEN UpperAlpha[CHOOSE i \in 1..26 : LowerAlpha[i] = c]
    ELSE c

\* String.prototype.toLowerCase
ToLowerCase(s) == [i \in 1..Len(s) |-> ToLowerChar(s[i])]

RECURSIVE TrimStart(_)
TrimStart(s) ==
    IF s # <<>> /\ Head(s) \in WhiteSpace THEN TrimStart(Tail(s)) ELSE s

RECURSIVE TrimEnd(_)
TrimEnd(s) ==
    IF s # <<>> /\ s[Len(s)] \in WhiteSpace
    THEN TrimEnd(SubSeq(s, 1, Len(s) - 1))
    ELSE s

\* String.prototype.trim
Trim(s) == TrimEnd(TrimStart(s))

\* String.prototype.includes
Includes(s, sub) ==
    \E i \in 0..(Len(s) - Len(sub)) : SubSeq(s, i + 1, i + Len(sub)) = sub

\* Array.prototype.join
RECURSIVE Join(_, _)
Join(parts, sep) ==
    IF parts = <<>> THEN <<>>
    ELSE IF Len(parts) = 1 THEN parts[1]
    ELSE parts[1] \o sep \o Join(Tail(parts), sep)

\* The first position of a character of cs in s, 0 when there is none.
IndexOf(s, cs) ==
    IF \E i \in 1..Len(s) : s[i] \in cs
    THEN CHOOSE i \in 1..Len(s) :
            s[i] \in cs /\ \A j \in 1..(i - 1) : s[j] \notin cs
    ELSE 0

IsDigits(s) == \A i \in 1..Len(s) : IsDigit(s[i])

RECURSIVE DigitsVal(_)
DigitsVal(s) ==
    IF s = <<>> THEN 0
    ELSE 10 * DigitsVal(SubSeq(s, 1, Len(s) - 1)) + DigitVal(s[Len(s)])

RECURSIVE Pow10(_)
Pow10(n) == IF n <= 0 THEN 1 ELSE 10 * Pow10(n - 1)

RECURSIVE DigitsOf(_)
DigitsOf(n) ==
    IF n < 10 THEN <<Digits[n + 1]>>
    ELSE DigitsOf(n \div 10) \o <<Digits[(n % 10) + 1]>>

----------------------------------------------------------------------------
(* JavaScript values.  t is typeof's answer ("array" and "null" apart);    *)
(* s is a string's characters, or the `id` of an object that has a string  *)
(* id; a finite number is n / 10^d; k tells a number's kind (fin, inf,     *)
(* -inf, nan) and whether an object has an `id`; a is an array's items.    *)

V(t, k, s, n, d, a) == [t |-> t, k |-> k, s |-> s, n |-> n, d |-> d, a |-> a]

Undef == V("undefined", "", <<>>, 0, 0, <<>>)
Null == V("null", "", <<>>, 0, 0, <<>>)
BoolV(b) == V("boolean", IF b THEN "true" ELSE "false", <<>>, 0, 0, <<>>)
StrV(s) == V("string", "", s, 0, 0, <<>>)
NumV(n) == V("number", "fin", <<>>, n, 0, <<>>)
DecV(n, d) == V("number", "fin", <<>>, n, d, <<>>)
Infinity == V("number", "inf", <<>>, 0, 0, <<>>)
NegInfinity == V("number", "-inf", <<>>, 0, 0, <<>>)
NaN == V("number", "nan", <<>>, 0, 0, <<>>)
ArrV(a) == V("array", "", <<>>, 0, 0, a)
ObjId(s) == V("object", "id", s, 0, 0, <<>>)
ObjNoId == V("object", "", <<>>, 0, 0, <<>>)

IsString(v) == v.t = "string"
IsNumber(v) == v.t = "number"
IsArray(v) == v.t = "array"

\* Number.isFinite, of a value that is a number
IsFinite(v) == v.t = "number" /\ v.k = "fin"

\* ToBoolean
Truthy(v) ==
    CASE v.t = "undefined" -> FALSE
      [] v.t = "null" -> FALSE
      [] v.t = "boolean" -> v.k = "true"
      [] v.t = "string" -> v.s # <<>>
      [] v.t = "number" -> v.k \in {"inf", "-inf"} \/ (v.k = "fin" /\ v.n # 0)
      [] OTHER -> TRUE

\* A finite number n / 10^d with the fraction's trailing zeros dropped.
RECURSIVE Normal(_, _)
Normal(n, d) ==
    IF d > 0 /\ n % 10 = 0 THEN Normal(n \div 10, d - 1) ELSE DecV(n, d)

Abs(n) == IF n < 0 THEN -n ELSE n

\* String(value) of a number (Number::toString, radix 10).
NumberToString(v) ==
    CASE v.k = "nan" -> <<"N","a","N">>
      [] v.k = "inf" -> <<"I","n","f","i","n","i","t","y">>
      [] v.k = "-inf" -> <<"-","I","n","f","i","n","i","t","y">>
      [] OTHER ->
            LET m == Abs(v.n)
                sign == IF v.n < 0 THEN <<"-">> ELSE <<>>
                int == DigitsOf(m \div Pow10(v.d))
                fr == DigitsOf(m % Pow10(v.d))
                pad == [i \in 1..(v.d - Len(fr)) |-> "0"]
            IN  IF v.d = 0 THEN sign \o int
                ELSE sign \o int \o <<".">> \o pad \o fr

\* StrUnsignedDecimalLiteral: digits, an optional fraction, an optional
\* exponent.  The value, or NaN when u is no such literal.
UnsignedDecimal(u) ==
    LET e == IndexOf(u, {"e", "E"})
        mant == IF e = 0 THEN u ELSE SubSeq(u, 1, e - 1)
        expo == IF e = 0 THEN <<>> ELSE SubSeq(u, e + 1, Len(u))
        esign == IF expo # <<>> /\ Head(expo) \in {"+", "-"}
                 THEN Head(expo) ELSE "+"
        edigits == IF expo # <<>> /\ Head(expo) \in {"+", "-"}
                   THEN Tail(expo) ELSE expo
        p == IndexOf(mant, {"."})
        int == IF p = 0 THEN mant ELSE SubSeq(mant, 1, p - 1)
        fr == IF p = 0 THEN <<>> ELSE SubSeq(mant, p + 1, Len(mant))
        ok == /\ IsDigits(int) /\ IsDigits(fr)
              /\ int \o fr # <<>>
              /\ e # 0 => (edigits # <<>> /\ IsDigits(edigits))
        m == DigitsVal(int \o fr)
        x == IF esign = "-" THEN -DigitsVal(edigits) ELSE DigitsVal(edigits)
        shift == x - Len(fr)
    IN  IF ~ok THEN NaN
        ELSE IF shift >= 0 THEN NumV(m * Pow10(shift))
        ELSE Normal(m, -shift)

\* Number(value) of a string (StringToNumber).  Literals with a radix
\* prefix (0x, 0o, 0b) are not recognised: no modelled input holds one.
StringToNumber(s) ==
    LET t == Trim(s)
        signed == t # <<>> /\ Head(t) \in {"+", "-"}
        neg == signed /\ Head(t) = "-"
        u == IF signed THEN Tail(t) ELSE t
        mag == IF u = <<"I","n","f","i","n","i","t","y">> THEN Infinity
               ELSE UnsignedDecimal(u)
    IN  IF t = <<>> THEN NumV(0)
        ELSE IF ~neg THEN mag
        ELSE IF mag.k = "inf" THEN NegInfinity
        ELSE IF mag.k = "fin" THEN DecV(-mag.n, mag.d)
        ELSE mag

----------------------------------------------------------------------------
(* The configuration object, resolved from the environment.  A setting     *)
(* that is not set is the empty string, which is falsy like undefined.     *)

EnvNames ==
    {"TOKEN", "BASE_ID", "TABLE_ID", "NAME_FIELD", "REP_EMAIL_FIELD",
     "STATUS_FIELD", "LATEST_UPDATE_FIELD", "CC_COMMENTS_FIELD",
     "CC_UPDATE_TIME_FIELD", "LEAD_EMAIL_FIELD", "LEAD_PHONE_FIELD",
     "NOTES_FIELD", "AFFILIATE_COMMENTS_FIELD", "AFFILIATE_COMMENTS_TABLE_ID",
     "AFFILIATE_COMMENT_LEAD_LINK_FIELD", "AFFILIATE_COMMENT_TEXT_FIELD",
     "AFFILIATE_COMMENT_AUTHOR_FIELD"}

\* a || b on two setting strings
OrElse(a, b) == IF a # "" THEN a ELSE b

ConfigOf(env) ==
    [token |-> env["TOKEN"],
     baseId |-> env["BASE_ID"],
     tableId |-> env["TABLE_ID"],
     fieldName |-> OrElse(env["NAME_FIELD"], "Name"),
     fieldRepEmail |-> OrElse(env["REP_EMAIL_FIELD"], "PS Rep Email"),
     fieldStatus |-> OrElse(env["STATUS_FIELD"], "Status"),
     fieldLatestUpdate |-> OrElse(env["LATEST_UPDATE_FIELD"], "Latest Update"),
     fieldCcComments |-> OrElse(env["CC_COMMENTS_FIELD"], "CC Comments"),
     fieldCcUpdateTime |-> OrElse(env["CC_UPDATE_TIME_FIELD"], "CC Update Time"),
     fieldLeadEmail |-> env["LEAD_EMAIL_FIELD"],
     fieldLeadPhone |-> env["LEAD_PHONE_FIELD"],
     fieldNotes |-> env["NOTES_FIELD"],
     fieldAffiliateComments |-> env["AFFILIATE_COMMENTS_FIELD"],
     affiliateCommentsTableId |->
        OrElse(env["AFFILIATE_COMMENTS_TABLE_ID"], "tblrMlNIChN4hKVkM"),
     affiliateCommentsLeadLinkField |->
        OrElse(env["AFFILIATE_COMMENT_LEAD_LINK_FIELD"], "Lead"),
     affiliateCommentsTextField |->
        OrElse(env["AFFILIATE_COMMENT_TEXT_FIELD"], "Comment"),
     affiliateCommentsAuthorField |->
        OrElse(env["AFFILIATE_COMMENT_AUTHOR_FIELD"], "Created By")]

\* The environment with the three required settings and nothing else.
BaseEnv ==
    [e \in EnvNames |->
        CASE e = "TOKEN" -> "pat"
          [] e = "BASE_ID" -> "app"
          [] e = "TABLE_ID" -> "tblLeads"
          [] OTHER -> ""]

\* A getBaseUrl that does not look at the table id.
getBaseUrlOkWithoutTable(cfg) ==
    ~(cfg.token = "" \/ cfg.baseId = "")

\* getBaseUrl returns (TRUE) or throws (FALSE)
getBaseUrlOk(cfg) ==
    ~(cfg.token = "" \/ cfg.baseId = "" \/ cfg.tableId = "")

\* getCommentsBaseUrl returns (TRUE) or throws (FALSE)
getCommentsBaseUrlOk(cfg) ==
    ~(cfg.token = "" \/ cfg.baseId = "" \/ cfg.affiliateCommentsTableId = "")

\* The messages of the Errors the adapter throws, word by word.
BaseConfigMissing ==
    <<"Airtable", "config", "missing", ".", "Set", "VITE_AIRTABLE_TOKEN", ",",
      "VITE_AIRTABLE_BASE_ID", ",", "and", "VITE_AIRTABLE_TABLE_ID", ".">>

CommentsConfigMissing ==
    <<"Airtable", "comments", "config", "missing", ".", "Set",
      "VITE_AIRTABLE_TOKEN", ",", "VITE_AIRTABLE_BASE_ID", ",", "and",
      "VITE_AIRTABLE_AFFILIATE_COMMENTS_TABLE_ID", ".">>

\* The message of throwIfNotOk: the service's own, or this one.
RequestFailed == <<"Airtable", "request", "failed">>

NoCreatedLead ==
    <<"Airtable", "did", "not", "return", "created", "lead", ".">>

----------------------------------------------------------------------------
(* The record decoders.  An AirtableRecord is                              *)
(* [id, createdTime, fields]: fields maps the column names the record      *)
(* holds to values; createdTime is a valid timestamp, held as the time     *)
(* value (getTime()) that new Date(createdTime) gives.                     *)

\* fields[key]
Field(fields, key) == IF key \in DOMAIN fields THEN fields[key] ELSE Undef

RECURSIVE parseText(_)
parseText(value) ==
    CASE IsString(value) -> value
      [] IsNumber(value) -> StrV(NumberToString(value))
      [] IsArray(value) ->
            LET mapped == [i \in 1..Len(value.a) |-> parseText(value.a[i])]
                textParts == SelectSeq(mapped, Truthy)
            IN  IF Len(textParts) # 0
                THEN StrV(Join([i \in 1..Len(textParts) |-> textParts[i].s],
                               <<",", " ">>))
                ELSE Undef
      [] OTHER -> Undef

parseNumber(value, fallback) ==
    IF IsNumber(value) /\ IsFinite(value) THEN value
    ELSE IF IsString(value)
         THEN LET parsed == StringToNumber(value.s)
              IN  IF IsFinite(parsed) THEN parsed ELSE fallback
         ELSE fallback

LeadStatus == {"new", "contacted", "qualified", "converted", "lost", "unknown"}

\* A match of the raw string as it is, without lower-casing.
normalizeStatusExact(rawStatus) ==
    IF ~IsString(rawStatus) THEN "unknown"
    ELSE IF rawStatus.s = <<"n","e","w">> THEN "new"
    ELSE IF rawStatus.s = <<"c","o","n","t","a","c","t","e","d">>
         THEN "contacted"
    ELSE IF rawStatus.s = <<"q","u","a","l","i","f","i","e","d">>
         THEN "qualified"
    ELSE IF rawStatus.s = <<"c","o","n","v","e","r","t","e","d">>
         THEN "converted"
    ELSE IF rawStatus.s = <<"l","o","s","t">> THEN "lost"
    ELSE "unknown"

normalizeStatus(rawStatus) ==
    IF ~IsString(rawStatus) THEN "unknown"
    ELSE LET value == ToLowerCase(rawStatus.s)
         IN  IF value = <<"n","e","w">> THEN "new"
             ELSE IF value = <<"c","o","n","t","a","c","t","e","d">>
                  THEN "contacted"
             ELSE IF value = <<"q","u","a","l","i","f","i","e","d">>
                  THEN "qualified"
             ELSE IF value = <<"c","o","n","v","e","r","t","e","d">>
                  THEN "converted"
             ELSE IF value = <<"l","o","s","t">> THEN "lost"
             ELSE "unknown"

UnnamedLead == <<"U","n","n","a","m","e","d"," ","L","e","a","d">>

\* config.fieldX ? parseText(fields[config.fieldX]) : undefined
OptionalText(fields, column) ==
    IF column # "" THEN parseText(Field(fields, column)) ELSE Undef

\* The Lead of a record.  latestUpdate and ccUpdateTime (parseDate) are
\* left out: they are computed from columns no other field reads.
mapRecordToLead(record, cfg) ==
    LET fields == record.fields
        name == parseText(Field(fields, cfg.fieldName))
    IN  [id |-> record.id,
         name |-> IF Truthy(name) THEN name.s ELSE UnnamedLead,
         status |-> normalizeStatus(Field(fields, cfg.fieldStatus)),
         createdTime |-> record.createdTime,
         psRepEmail |-> parseText(Field(fields, cfg.fieldRepEmail)),
         ccComments |-> parseNumber(Field(fields, cfg.fieldCcComments), NumV(0)),
         leadEmail |-> OptionalText(fields, cfg.fieldLeadEmail),
         leadPhone |-> OptionalText(fields, cfg.fieldLeadPhone),
         notes |-> OptionalText(fields, cfg.fieldNotes),
         affiliateComments |-> OptionalText(fields, cfg.fieldAffiliateComments)]

RECURSIVE getFirstTextField(_, _)
getFirstTextField(fields, candidates) ==
    IF candidates = <<>> THEN Undef
    ELSE LET value == parseText(Field(fields, Head(candidates)))
         IN  IF value # Undef THEN value
             ELSE getFirstTextField(fields, Tail(candidates))

\* The candidate columns of a comment's text.
TextCandidates(cfg) ==
    <<cfg.affiliateCommentsTextField, "Comment", "Message",
      "Affiliate Comment", "Text", "Name">>

\* The comment a record maps to (the .map callback of the thread loader).
CommentOfRecord(record, cfg) ==
    LET first == getFirstTextField(record.fields, TextCandidates(cfg))
        text == IF Truthy(first) THEN first.s ELSE <<>>
        author ==
            IF cfg.affiliateCommentsAuthorField # ""
            THEN parseText(Field(record.fields, cfg.affiliateCommentsAuthorField))
            ELSE getFirstTextField(record.fields,
                                   <<"Created By", "Author", "From", "Sender">>)
    IN  [id |-> record.id, text |-> text,
         createdTime |-> record.createdTime, author |-> author]

\* A filter that does not trim.
HasTextUntrimmed(c) == Len(c.text) > 0

\* The .filter callback of the thread loader.
HasText(c) == Len(Trim(c.text)) > 0

\* A scan that knows linked-record arrays of id strings only.
recordLinksToLeadByStrings(record, id) ==
    \E key \in DOMAIN record.fields :
        LET value == record.fields[key]
        IN  IF IsArray(value)
            THEN \E i \in 1..Len(value.a) :
                    IsString(value.a[i]) /\ value.a[i].s = id
            ELSE IF IsString(value) THEN Includes(value.s, id)
            ELSE FALSE

recordLinksToLead(record, id) ==
    \E key \in DOMAIN record.fields :
        LET value == record.fields[key]
        IN  IF IsArray(value)
            THEN \E i \in 1..Len(value.a) :
                    LET item == value.a[i]
                    IN  IF IsString(item) THEN item.s = id
                        ELSE IF item.t = "object" /\ item.k = "id"
                             THEN item.s = id
                        ELSE FALSE
            ELSE IF IsString(value) THEN Includes(value.s, id)
            ELSE FALSE

\* Array.prototype.sort with (a, b) => a.createdTime - b.createdTime: a
\* stable sort, as an insertion after the elements that are not later.
RECURSIVE InsertByTime(_, _)
InsertByTime(c, sorted) ==
    IF sorted = <<>> THEN <<c>>
    ELSE IF Head(sorted).createdTime - c.createdTime <= 0
         THEN <<Head(sorted)>> \o InsertByTime(c, Tail(sorted))
         ELSE <<c>> \o sorted

\* No sort: the order the records came in.
Unsorted(cs) == cs

RECURSIVE SortByCreatedTime(_)
SortByCreatedTime(cs) ==
    IF cs = <<>> THEN <<>>
    ELSE InsertByTime(cs[Len(cs)],
                      SortByCreatedTime(SubSeq(cs, 1, Len(cs) - 1)))

\* records.map(...).filter(...).sort(...)
CommentsOf(recs, cfg) ==
    SortByCreatedTime(
        SelectSeq([i \in 1..Len(recs) |-> CommentOfRecord(recs[i], cfg)],
                  HasText))

----------------------------------------------------------------------------
(* The comments table as the list endpoint serves it.  The service is      *)
(* outside the program: each response is its choice of a page of records,  *)
(* of whether a continuation token follows, and of success.                *)

R1 == <<"r","1">>
R2 == <<"r","2">>
R10 == <<"r","1","0">>

LeadIds == {R1}

Hi == <<"h","i">>
Yo == <<"y","o">>

\* The fields of the records the endpoint may serve.  The link column holds
\* a plain string naming the lead, a string holding it among others, a
\* linked-record array of ids or of objects, or a value that names another
\* lead or none; the text columns hold text, blank text, a number, or are
\* missing.
FieldShapes ==
    {[Lead |-> StrV(R1), Comment |-> StrV(Hi)],
     [Lead |-> StrV(<<"r","2",","," ","r","1","0">>),
      Comment |-> StrV(<<>>), Message |-> StrV(Yo)],
     [Lead |-> ArrV(<<StrV(R1)>>), Comment |-> StrV(<<" ", "\n">>)],
     [Lead |-> ArrV(<<ObjId(R2), ObjId(R1)>>), Message |-> StrV(Yo)],
     [Lead |-> ArrV(<<StrV(R10), ObjNoId, Null, NumV(1)>>),
      Comment |-> StrV(Hi)],
     [Lead |-> StrV(R2), Comment |-> NumV(5)],
     [Lead |-> ArrV(<<StrV(R1)>>)],
     [Comment |-> StrV(<<"t","o"," ","r","1">>)]}

Times == {1, 2}

\* A page may be empty; a call is served at most this many pages.
MaxPages == MaxRecords + 1

NoOffset == <<>>

\* The continuation token that follows page k.
Token(k) == <<"i","t","r">> \o DigitsOf(k)

\* The id of the j-th record a call is served.
RecId(j) == <<"r","e","c">> \o DigitsOf(j)

\* The pages that may follow `served` records: n records, numbered on.
PagesAfter(served) ==
    UNION {
        {[i \in 1..n |-> [id |-> RecId(served + i),
                          createdTime |-> ts[i],
                          fields |-> fs[i]]] :
            fs \in [1..n -> FieldShapes], ts \in [1..n -> Times]} :
        n \in 0..(MaxRecords - served)}

\* The records of the pages served, in page order.
RECURSIVE Served(_)
Served(pages) ==
    IF pages = <<>> THEN <<>>
    ELSE Served(SubSeq(pages, 1, Len(pages) - 1)) \o pages[Len(pages)].records

OkResponse(page, token) == [ok |-> TRUE, records |-> page, offset |-> token]

NotOkResponse == [ok |-> FALSE, records |-> <<>>, offset |-> NoOffset]

----------------------------------------------------------------------------
(* fetchAllRecords and fetchAffiliateCommentsForLead.  A step runs the     *)
(* code from one await to the next.                                        *)

NoFormula == [find |-> <<>>, field |-> ""]

\* FIND("<leadId>", ARRAYJOIN({<link field>}))
Formula(id, cfg) == [find |-> id, field |-> cfg.affiliateCommentsLeadLinkField]

\* The params of the running call's requests.
Params ==
    IF pc = "primary" THEN Formula(leadId, config) ELSE NoFormula

\* A loop that never sets the offset parameter.
RequestWithoutOffset == [filterByFormula |-> Params, offset |-> NoOffset]

\* The request of one turn of fetchAllRecords' loop.
Request == [filterByFormula |-> Params, offset |-> offset]

\* A check that lets every response through.
throwIfNotOkNever(response) == FALSE

\* throwIfNotOk throws
throwIfNotOk(response) == ~response.ok

\* records.push(...payload.records)
Push(recs, page) == recs \o page

\* One turn of fetchAllRecords' loop: the request, and what its response
\* leads to.  call becomes "returned" or "threw" when the loop ends.
FetchPage(response) ==
    /\ pc \in {"primary", "fallback"}
    /\ call = "running"
    /\ requests' = Append(requests, Request)
    /\ responses' = Append(responses, response)
    /\ IF throwIfNotOk(response)
       THEN /\ call' = "threw"
            /\ UNCHANGED <<fetched, offset>>
       ELSE /\ fetched' = Push(fetched, response.records)
            /\ offset' = response.offset
            /\ call' = IF response.offset # NoOffset THEN "running"
                       ELSE "returned"
    /\ UNCHANGED <<config, pc, leadId, primary, records, result, error>>
    /\ UNCHANGED decodeVars
    /\ UNCHANGED adapterVars
    /\ UNCHANGED uiVars

\* The loop of fetchAllRecords, one request at a time, against whatever the
\* endpoint answers.
fetchAllRecords ==
    \/ \E page \in PagesAfter(Len(Served(responses))), more \in BOOLEAN :
          /\ more => Len(responses) + 1 < MaxPages
          /\ FetchPage(OkResponse(page, IF more THEN Token(Len(responses) + 1)
                                        ELSE NoOffset))
    \/ FetchPage(NotOkResponse)

\* A call of fetchAllRecords begins: records = [], offset undefined.
BeginFetch(query) ==
    /\ pc' = query
    /\ call' = "running"
    /\ fetched' = <<>>
    /\ offset' = NoOffset
    /\ requests' = <<>>
    /\ responses' = <<>>

\* fetchAffiliateCommentsForLead(id), up to its first request.
fetchAffiliateCommentsForLead(id) ==
    /\ pc = "idle"
    /\ leadId' = id
    /\ IF getCommentsBaseUrlOk(config)
       THEN /\ BeginFetch("primary")
            /\ UNCHANGED <<error, message>>
       ELSE /\ pc' = "threw"
            /\ error' = "config"
            /\ message' = CommentsConfigMissing
            /\ UNCHANGED <<call, fetched, offset, requests, responses>>
    /\ UNCHANGED <<config, primary, records, result>>
    /\ UNCHANGED decodeVars
    /\ UNCHANGED opVars
    /\ UNCHANGED uiVars

\* A test that sends every call to the fallback scan.
NeedsFallbackAlways(recs) == TRUE

\* records.length === 0
NeedsFallback(recs) == Len(recs) = 0

\* The return statement: map, filter, sort.
Finish(recs) ==
    /\ records' = recs
    /\ result' = CommentsOf(recs, config)
    /\ pc' = "done"
    /\ UNCHANGED <<call, fetched, offset, requests, responses, error>>

\* The primary call without its try/catch: its failure propagates.
ResumePrimaryUncaught ==
    /\ pc = "primary"
    /\ call \in {"returned", "threw"}
    /\ IF call = "threw"
       THEN /\ pc' = "threw"
            /\ error' = "request"
            /\ UNCHANGED <<call, fetched, offset, requests, responses,
                           records, result, primary>>
       ELSE /\ primary' = IF fetched = <<>> THEN "empty" ELSE "records"
            /\ IF NeedsFallback(fetched)
               THEN /\ BeginFetch("fallback")
                    /\ records' = fetched
                    /\ UNCHANGED <<result, error>>
               ELSE Finish(fetched)
    /\ UNCHANGED <<config, leadId>>
    /\ UNCHANGED decodeVars
    /\ UNCHANGED adapterVars
    /\ UNCHANGED uiVars

\* The primary call has ended: try/catch, then the test of records.length.
ResumePrimary ==
    /\ pc = "primary"
    /\ call \in {"returned", "threw"}
    /\ LET recs == IF call = "returned" THEN fetched ELSE <<>>
       IN  /\ primary' = IF call = "threw" THEN "threw"
                         ELSE IF recs = <<>> THEN "empty" ELSE "records"
           /\ IF NeedsFallback(recs)
              THEN /\ BeginFetch("fallback")
                   /\ records' = recs
                   /\ UNCHANGED <<result, error>>
              ELSE Finish(recs)
    /\ UNCHANGED <<config, leadId>>
    /\ UNCHANGED decodeVars
    /\ UNCHANGED adapterVars
    /\ UNCHANGED uiVars

\* The fallback call has ended: its failure propagates, its records are
\* filtered to those that link to the lead.
ResumeFallback ==
    /\ pc = "fallback"
    /\ call \in {"returned", "threw"}
    /\ IF call = "threw"
       THEN /\ pc' = "threw"
            /\ error' = "request"
            /\ UNCHANGED <<call, fetched, offset, requests, responses,
                           records, result>>
       ELSE Finish(SelectSeq(fetched,
                             LAMBDA record : recordLinksToLead(record, leadId)))
    /\ UNCHANGED <<config, leadId, primary>>
    /\ UNCHANGED decodeVars
    /\ UNCHANGED adapterVars
    /\ UNCHANGED uiVars

----------------------------------------------------------------------------
(* fetchLeads, createLead and sendAffiliateMessage.  Each issues one       *)
(* request; a step runs the code up to the await of the response, the      *)
(* next from the response to the return or the throw.                      *)

\* The components before they are mounted: the initial values of their
\* state, and no handler called.
initialState ==
    [name |-> <<>>, affiliateEmail |-> <<>>, leadEmail |-> <<>>,
     leadPhone |-> <<>>, notes |-> <<>>, initialMessage |-> <<>>]

NoLead == "null"

FirstRender ==
    /\ leads = <<>>
    /\ isRefreshing = FALSE
    /\ isInitialLoading = TRUE
    /\ appError = "null"
    /\ formData = initialState
    /\ isSubmitting = FALSE
    /\ selectedLead = NoLead
    /\ isOpen = FALSE
    /\ messageText = <<>>
    /\ isSendingMessage = FALSE
    /\ comments = <<>>
    /\ isCommentsLoading = FALSE

Unmounted ==
    /\ FirstRender
    /\ tasks = <<>>

\* No operation has been called.
AdapterIdle ==
    /\ op = "none"
    /\ opState = "idle"
    /\ input = <<>>
    /\ sent = <<>>
    /\ reply = <<>>
    /\ output = <<>>
    /\ message = <<>>

\* {}
NoFields == [k \in {} |-> Undef]

\* fields[key] = value on an object
Put(fields, key, value) ==
    [k \in DOMAIN fields \cup {key} |-> IF k = key THEN value ELSE fields[k]]

\* The request of fetchLeads: the leads table, sorted by latest update.
GetLeads(cfg) ==
    [method |-> "GET", base |-> cfg.baseId, table |-> cfg.tableId,
     sort |-> <<cfg.fieldLatestUpdate, "desc">>, offset |-> NoOffset,
     body |-> <<>>]

\* A POST of one record with typecast.
PostRecord(cfg, table, fields) ==
    [method |-> "POST", base |-> cfg.baseId, table |-> table,
     sort |-> <<>>, offset |-> NoOffset,
     body |-> [records |-> <<[fields |-> fields]>>, typecast |-> TRUE]]

New == <<"N","e","w">>

\* A setIfConfigured that does not look at the value.
setIfConfiguredAnyValue(fields, key, value) ==
    IF key # "" THEN Put(fields, key, value) ELSE fields

setIfConfigured(fields, key, value) ==
    IF key # "" /\ Truthy(value) THEN Put(fields, key, value) ELSE fields

\* A field map with the name and the rep email in each other's column.
LeadFieldsSwapped(leadInput, cfg) ==
    LET f0 == Put(Put(Put(NoFields, cfg.fieldName, leadInput.affiliateEmail),
                      cfg.fieldRepEmail, leadInput.name),
                  cfg.fieldStatus, StrV(New))
        f1 == setIfConfigured(f0, cfg.fieldLeadEmail, leadInput.leadEmail)
        f2 == setIfConfigured(f1, cfg.fieldLeadPhone, leadInput.leadPhone)
        f3 == setIfConfigured(f2, cfg.fieldNotes, leadInput.notes)
    IN  setIfConfigured(f3, cfg.fieldAffiliateComments,
                        leadInput.initialMessage)

\* The field map createLead sends.
LeadFields(leadInput, cfg) ==
    LET f0 == Put(Put(Put(NoFields, cfg.fieldName, leadInput.name),
                      cfg.fieldRepEmail, leadInput.affiliateEmail),
                  cfg.fieldStatus, StrV(New))
        f1 == setIfConfigured(f0, cfg.fieldLeadEmail, leadInput.leadEmail)
        f2 == setIfConfigured(f1, cfg.fieldLeadPhone, leadInput.leadPhone)
        f3 == setIfConfigured(f2, cfg.fieldNotes, leadInput.notes)
    IN  setIfConfigured(f3, cfg.fieldAffiliateComments,
                        leadInput.initialMessage)

You == <<"Y","o","u">>

\* The field map sendAffiliateMessage sends.
MessageFields(toLead, text, cfg) ==
    LET f0 == Put(Put(NoFields, cfg.affiliateCommentsTextField, StrV(text)),
                  cfg.affiliateCommentsLeadLinkField,
                  ArrV(<<StrV(toLead.id)>>))
    IN  IF cfg.affiliateCommentsAuthorField # ""
        THEN Put(f0, cfg.affiliateCommentsAuthorField, StrV(You))
        ELSE f0

\* An operation begins: urlOk tells whether the URL getter returns, and
\* request is what is then sent.
BeginOp(name, args, urlOk, missing, request) ==
    /\ op = "none"
    /\ pc = "idle"
    /\ op' = name
    /\ input' = args
    /\ IF urlOk
       THEN /\ sent' = <<request>>
            /\ opState' = "awaiting"
            /\ UNCHANGED message
       ELSE /\ opState' = "threw"
            /\ message' = missing
            /\ UNCHANGED sent
    /\ UNCHANGED <<reply, output>>
    /\ UNCHANGED <<config, fetchVars, decodeVars>>
    /\ UNCHANGED uiVars

\* An operation throws after its response.
Throw(text) ==
    /\ opState' = "threw"
    /\ message' = text
    /\ UNCHANGED output

\* An operation returns after its response.
Return(value) ==
    /\ opState' = "returned"
    /\ output' = value
    /\ UNCHANGED message

\* payload.records.map(mapRecordToLead)
LeadsOf(recs, cfg) == [i \in 1..Len(recs) |-> mapRecordToLead(recs[i], cfg)]

fetchLeads ==
    BeginOp("fetchLeads", <<>>, getBaseUrlOk(config), BaseConfigMissing,
            GetLeads(config))

createLead(leadInput) ==
    BeginOp("createLead", leadInput, getBaseUrlOk(config), BaseConfigMissing,
            PostRecord(config, config.tableId, LeadFields(leadInput, config)))

sendAffiliateMessage(toLead, text) ==
    BeginOp("sendAffiliateMessage", [lead |-> toLead, message |-> text],
            getCommentsBaseUrlOk(config), CommentsConfigMissing,
            PostRecord(config, config.affiliateCommentsTableId,
                       MessageFields(toLead, text, config)))

\* The response of an operation arrives.
Resume(name, response) ==
    /\ op = name
    /\ opState = "awaiting"
    /\ reply' = response
    /\ UNCHANGED <<op, input, sent>>
    /\ UNCHANGED <<config, fetchVars, decodeVars>>
    /\ UNCHANGED uiVars

\* A fetchLeads that goes on to the next page when a token comes.
ResumeFetchLeadsPaginated(response) ==
    /\ op = "fetchLeads"
    /\ opState = "awaiting"
    /\ reply' = response
    /\ IF throwIfNotOk(response)
       THEN /\ Throw(RequestFailed)
            /\ UNCHANGED sent
       ELSE IF response.offset # NoOffset /\ Len(sent) = 1
            THEN /\ sent' = Append(sent, [GetLeads(config) EXCEPT
                                              !.offset = response.offset])
                 /\ UNCHANGED <<opState, output, message>>
            ELSE /\ Return(LeadsOf(response.records, config))
                 /\ UNCHANGED sent
    /\ UNCHANGED <<op, input>>
    /\ UNCHANGED <<config, fetchVars, decodeVars>>
    /\ UNCHANGED uiVars

ResumeFetchLeads(response) ==
    /\ Resume("fetchLeads", response)
    /\ IF throwIfNotOk(response)
       THEN Throw(RequestFailed)
       ELSE Return(LeadsOf(response.records, config))

ResumeCreateLead(response) ==
    /\ Resume("createLead", response)
    /\ IF throwIfNotOk(response)
       THEN Throw(RequestFailed)
       ELSE IF response.records = <<>>
            THEN Throw(NoCreatedLead)
            ELSE Return(<<mapRecordToLead(response.records[1], config)>>)

ResumeSendAffiliateMessage(response) ==
    /\ Resume("sendAffiliateMessage", response)
    /\ IF throwIfNotOk(response)
       THEN Throw(RequestFailed)
       ELSE Return(<<>>)

----------------------------------------------------------------------------
(* The thread loader against every configuration and every endpoint.       *)

FetchEnvs ==
    {BaseEnv,
     [BaseEnv EXCEPT !["TOKEN"] = ""],
     [BaseEnv EXCEPT !["BASE_ID"] = ""]}

NoRecord == [id |-> <<>>, createdTime |-> 0, fields |-> <<>>]

Init ==
    /\ config \in {ConfigOf(env) : env \in FetchEnvs}
    /\ pc = "idle"
    /\ leadId = <<>>
    /\ call = "none"
    /\ fetched = <<>>
    /\ offset = NoOffset
    /\ requests = <<>>
    /\ responses = <<>>
    /\ primary = "pending"
    /\ records = <<>>
    /\ result = <<>>
    /\ error = ""
    /\ AdapterIdle
    /\ Unmounted
    /\ raw = NoRecord
    /\ lead = <<>>
    /\ comment = <<>>

Next ==
    \/ \E id \in LeadIds : fetchAffiliateCommentsForLead(id)
    \/ fetchAllRecords
    \/ ResumePrimary
    \/ ResumeFallback

Spec == Init /\ [][Next]_vars

----------------------------------------------------------------------------
(* The three operations against every configuration, argument and          *)
(* response.  One operation is called in a behaviour.                      *)

Al == <<"A","l">>
Mail == <<"a","@","b">>

\* The values an optional input may have: unset, empty, or a text.
OptionalInput(text) == {Undef, StrV(<<>>), StrV(text)}

NewLeadInputs ==
    [name : {StrV(<<>>), StrV(Al)},
     affiliateEmail : {StrV(<<>>), StrV(Mail)},
     leadEmail : OptionalInput(<<"l","@","x">>),
     leadPhone : OptionalInput(<<"5","5","5">>),
     notes : OptionalInput(<<"n","b">>),
     initialMessage : OptionalInput(Hi)]

\* The destination columns of the optional inputs.
OptionalColumns ==
    [LEAD_EMAIL_FIELD |-> "Lead Email", LEAD_PHONE_FIELD |-> "Lead Phone",
     NOTES_FIELD |-> "Notes", AFFILIATE_COMMENTS_FIELD |-> "Affiliate Comments"]

\* The environment with the columns of `chosen` configured.
WithColumns(chosen) ==
    [e \in EnvNames |-> IF e \in chosen THEN OptionalColumns[e] ELSE BaseEnv[e]]

\* The environment without the settings of `missing`.
Without(missing) ==
    [e \in EnvNames |-> IF e \in missing THEN "" ELSE BaseEnv[e]]

\* Every choice of optional columns, a choice of other column names, and
\* the environments that lack a required setting.
AdapterEnvs ==
    {WithColumns(chosen) : chosen \in SUBSET DOMAIN OptionalColumns}
    \cup {[WithColumns(DOMAIN OptionalColumns) EXCEPT
              !["NAME_FIELD"] = "Full Name",
              !["REP_EMAIL_FIELD"] = "Rep",
              !["STATUS_FIELD"] = "Stage"]}
    \cup {Without({"TOKEN"}), Without({"TABLE_ID"})}

\* The fields of the records the leads table may serve.
LeadShapes(cfg) ==
    {Put(Put(Put(NoFields, cfg.fieldName, StrV(Al)),
             cfg.fieldStatus, StrV(<<"L","o","s","t">>)),
         cfg.fieldCcComments, NumV(3)),
     Put(Put(NoFields, cfg.fieldRepEmail, StrV(Mail)),
         cfg.fieldStatus, StrV(New)),
     NoFields}

\* The pages the leads table may serve: n records, numbered from 1.
LeadPages(cfg) ==
    UNION {
        {[i \in 1..n |-> [id |-> RecId(i), createdTime |-> ts[i],
                          fields |-> fs[i]]] :
            fs \in [1..n -> LeadShapes(cfg)], ts \in [1..n -> Times]} :
        n \in 0..MaxRecords}

\* What the list endpoint may answer to fetchLeads.
LeadResponses(cfg) ==
    {OkResponse(page, token) :
        page \in LeadPages(cfg), token \in {NoOffset, Token(1)}}
    \cup {NotOkResponse}

\* The columns of a field map that hold something.
Filled(fields) ==
    {k \in DOMAIN fields : fields[k] # StrV(<<>>)}

\* The record the service creates from a request: the fields it was sent,
\* or those of them that are not empty.
Created(fields) ==
    {[id |-> RecId(1), createdTime |-> 1, fields |-> fields],
     [id |-> RecId(1), createdTime |-> 1,
      fields |-> [k \in Filled(fields) |-> fields[k]]]}

\* What the endpoint may answer to a POST.
PostResponses(request) ==
    {OkResponse(<<record>>, NoOffset) :
        record \in Created(request.body.records[1].fields)}
    \cup {OkResponse(<<>>, NoOffset), NotOkResponse}

\* The leads a message may be sent to.
Recipients(cfg) ==
    {mapRecordToLead([id |-> R1, createdTime |-> 1, fields |-> fs], cfg) :
        fs \in LeadShapes(cfg)}

FetchIdle ==
    /\ pc = "idle"
    /\ leadId = <<>>
    /\ call = "none"
    /\ fetched = <<>>
    /\ offset = NoOffset
    /\ requests = <<>>
    /\ responses = <<>>
    /\ primary = "pending"
    /\ records = <<>>
    /\ result = <<>>
    /\ error = ""

DecodeIdle ==
    /\ raw = NoRecord
    /\ lead = <<>>
    /\ comment = <<>>

AdapterInit ==
    /\ config \in {ConfigOf(env) : env \in AdapterEnvs}
    /\ FetchIdle
    /\ DecodeIdle
    /\ AdapterIdle
    /\ Unmounted

\* No operation has been called, here or on the comment thread.
NoneCalled == op = "none" /\ pc = "idle"

\* The operation awaits its response.
Awaiting(name) == op = name /\ opState = "awaiting"

AdapterNext ==
    \/ fetchLeads
    \/ /\ Awaiting("fetchLeads")
       /\ \E response \in LeadResponses(config) : ResumeFetchLeads(response)
    \/ /\ NoneCalled
       /\ \E leadInput \in NewLeadInputs : createLead(leadInput)
    \/ /\ Awaiting("createLead")
       /\ \E response \in PostResponses(sent[1]) : ResumeCreateLead(response)
    \/ /\ NoneCalled
       /\ \E toLead \in Recipients(config), text \in {Hi, <<>>} :
             sendAffiliateMessage(toLead, text)
    \/ /\ Awaiting("sendAffiliateMessage")
       /\ \E response \in PostResponses(sent[1]) :
             ResumeSendAffiliateMessage(response)

SpecAdapter == AdapterInit /\ [][AdapterNext]_vars

----------------------------------------------------------------------------
(* The four operations under configurations that lack required settings.   *)
(* One operation is called in a behaviour.                                 *)

ConfigEnvs ==
    {BaseEnv, Without({"TOKEN"}), Without({"BASE_ID"}), Without({"TABLE_ID"}),
     Without({"TOKEN", "TABLE_ID"}), Without({"TOKEN", "BASE_ID", "TABLE_ID"})}

ConfigInit ==
    /\ config \in {ConfigOf(env) : env \in ConfigEnvs}
    /\ FetchIdle
    /\ DecodeIdle
    /\ AdapterIdle
    /\ Unmounted

ConfigNext ==
    \/ AdapterNext
    \/ op = "none" /\ Next

SpecConfig == ConfigInit /\ [][ConfigNext]_vars

----------------------------------------------------------------------------
(* The decoders on every raw record of a bounded family.                   *)

\* The strings over an alphabet, up to a length.
Strings(alphabet, n) == UNION {[1..k -> alphabet] : k \in 0..n}

\* A word in every mix of upper and lower case.
CaseVariants(w) ==
    {[i \in 1..Len(w) |-> IF i \in U THEN ToUpperChar(w[i]) ELSE w[i]] :
        U \in SUBSET (1..Len(w))}

KnownStatuses ==
    {<<"n","e","w">>, <<"c","o","n","t","a","c","t","e","d">>,
     <<"q","u","a","l","i","f","i","e","d">>,
     <<"c","o","n","v","e","r","t","e","d">>, <<"l","o","s","t">>}

\* Raw values of the status column.
StatusRaw ==
    {StrV(s) : s \in UNION {CaseVariants(w) : w \in KnownStatuses}}
    \cup {StrV(s) : s \in Strings({"n", "e", "w", "N", " "}, MaxLen)}
    \cup {StrV(<<"n","e","w"," ">>), StrV(<<"u","n","k","n","o","w","n">>),
          StrV(<<"l","o","s","t","!">>), StrV(<<"N","e","w","s">>),
          NumV(0), NumV(1), Null, Undef, BoolV(TRUE),
          ArrV(<<StrV(<<"n","e","w">>)>>)}

\* Raw values of the partner-comment count column.  JSON holds no NaN; a
\* literal too large for a double is read as Infinity.
CountRaw ==
    {StrV(s) : s \in Strings({"0", "1", "2", "-", ".", " ", "a"}, MaxLen)}
    \cup {StrV(<<"1","e","2">>), StrV(<<"1","e","-","1">>), StrV(<<"1","e">>),
          StrV(<<"+","7">>), StrV(<<"I","n","f","i","n","i","t","y">>),
          StrV(<<"-","I","n","f","i","n","i","t","y">>),
          StrV(<<"N","a","N">>), StrV(<<"1","2","a">>),
          StrV(<<" ","4","2","\n">>)}
    \cup {NumV(n) : n \in -2..3}
    \cup {DecV(25, 1), DecV(-5, 1), Infinity, NegInfinity,
          Null, Undef, BoolV(TRUE), ArrV(<<NumV(1)>>), ObjNoId}

\* The text a column holds in the generated comment records.
Tag(column) ==
    CASE column = "Comment" -> <<"C">>
      [] column = "Message" -> <<"M">>
      [] column = "Affiliate Comment" -> <<"A">>
      [] column = "Text" -> <<"T">>
      [] column = "Name" -> <<"N">>
      [] OTHER -> <<"B">>

TextColumns(cfg) ==
    {TextCandidates(cfg)[i] : i \in 1..Len(TextCandidates(cfg))}

\* What else the Comment column may hold.
CommentExtras ==
    {StrV(<<" ">>), NumV(7), Null, ArrV(<<>>),
     ArrV(<<StrV(<<"x">>), StrV(<<>>), StrV(<<"y">>)>>)}

TextValue(column, choice) ==
    CASE choice = "absent" -> Undef
      [] choice = "empty" -> StrV(<<>>)
      [] OTHER -> StrV(Tag(column))

\* A field map without the columns whose value is undefined.
Present(f) == [c \in {x \in DOMAIN f : f[x] # Undef} |-> f[c]]

\* Every candidate column absent, empty or holding its own text, and the
\* Comment column holding also the other kinds of value.
TextFields(cfg) ==
    {Present([c \in TextColumns(cfg) |->
                IF c = "Comment" /\ x # Undef THEN x
                ELSE TextValue(c, g[c])]) :
        g \in [TextColumns(cfg) -> {"absent", "empty", "text"}],
        x \in {Undef} \cup CommentExtras}

\* The records given to the decoders under a configuration.
DecodeRecords(cfg) ==
    {[id |-> RecId(1), createdTime |-> 1, fields |-> f] :
        f \in {Present([c \in {cfg.fieldStatus} |-> v]) : v \in StatusRaw}
              \cup {Present([c \in {cfg.fieldCcComments} |-> v]) :
                      v \in CountRaw}
              \cup TextFields(cfg)}

DecodeEnvs ==
    {BaseEnv,
     [BaseEnv EXCEPT !["AFFILIATE_COMMENT_TEXT_FIELD"] = "Body",
                     !["STATUS_FIELD"] = "Stage",
                     !["CC_COMMENTS_FIELD"] = "Partner Comments"]}

DecodeInit ==
    /\ config \in {ConfigOf(env) : env \in DecodeEnvs}
    /\ raw \in DecodeRecords(config)
    /\ lead = <<>>
    /\ comment = <<>>
    /\ pc = "decode"
    /\ leadId = <<>>
    /\ call = "none"
    /\ fetched = <<>>
    /\ offset = NoOffset
    /\ requests = <<>>
    /\ responses = <<>>
    /\ primary = "pending"
    /\ records = <<>>
    /\ result = <<>>
    /\ error = ""
    /\ AdapterIdle
    /\ Unmounted

\* mapRecordToLead(raw)
DecodeLead ==
    /\ pc = "decode"
    /\ lead = <<>>
    /\ lead' = <<mapRecordToLead(raw, config)>>
    /\ UNCHANGED <<config, raw, comment>>
    /\ UNCHANGED fetchVars
    /\ UNCHANGED adapterVars
    /\ UNCHANGED uiVars

\* The thread loader's mapping of raw to a comment.
DecodeComment ==
    /\ pc = "decode"
    /\ comment = <<>>
    /\ comment' = <<CommentOfRecord(raw, config)>>
    /\ UNCHANGED <<config, raw, lead>>
    /\ UNCHANGED fetchVars
    /\ UNCHANGED adapterVars
    /\ UNCHANGED uiVars

DecodeNext == DecodeLead \/ DecodeComment

SpecDecode == DecodeInit /\ [][DecodeNext]_vars

----------------------------------------------------------------------------
(* App and LeadsTable.  A handler runs from the event that calls it to     *)
(* its first await, and from the outcome of what it awaits to the next     *)
(* await or to its end; the state updates of one such run are rendered     *)
(* before the next event.  An adapter operation in flight is the handler   *)
(* call that awaits it; its outcome is the value it resolves to (leads     *)
(* are held by their ids) or a rejection.  A handler reads the variables   *)
(* of its closure as they were when it was called.                         *)

LeadA == "recA"
LeadB == "recB"

\* The lists fetchLeads may resolve to.
LeadLists == {<<>>, <<LeadA>>, <<LeadB, LeadA>>}

\* The threads fetchAffiliateCommentsForLead may resolve to for a lead.
Threads(l) == {<<>>, <<[id |-> "com1", lead |-> l]>>}

\* The drafts the operator may type.
Drafts == {<<>>, <<" ">>, Hi}

Resolved(value) == [ok |-> TRUE, data |-> value]

Rejected == [ok |-> FALSE, data |-> <<>>]

\* The message of the Error of a rejection, as App shows it.
ErrorMessage == "Airtable request failed"

\* A call of a handler: what it awaits, the lead and the text of its
\* closure, the input it passes on, and the outcome sendAffiliateMessage
\* or fetchLeads gave it last.
Task(kind, awaits, l, text) ==
    [kind |-> kind, awaits |-> awaits, lead |-> l, text |-> text,
     input |-> initialState, got |-> <<>>]

Range(seq) == {seq[i] : i \in 1..Len(seq)}

\* The call goes on to await something else.
Awaits(i, operation, given) ==
    tasks' = [tasks EXCEPT ![i].awaits = operation, ![i].got = given]

\* The call ends; its closure is dropped.
Ends(i, given) ==
    tasks' = [tasks EXCEPT ![i] = [kind |-> tasks[i].kind, awaits |-> "done",
                                   lead |-> NoLead, text |-> <<>>,
                                   input |-> initialState, got |-> given]]

TaskAwaits(i, kind, operation) ==
    /\ i \in 1..Len(tasks)
    /\ tasks[i].kind = kind
    /\ tasks[i].awaits = operation

\* A loadLeads that drops the outcome of a call that is not the latest.
LeadsAfterLoadIfLatest(i, outcome) ==
    IF /\ outcome.ok
       /\ \A k \in (i + 1)..Len(tasks) :
             tasks[k].kind # "loadLeads" /\ tasks[k].awaits # "fetchLeads"
    THEN outcome.data
    ELSE leads

\* loadLeads: the leads state after try/catch.
LeadsAfterLoad(i, outcome) == IF outcome.ok THEN outcome.data ELSE leads

\* The error state after the try/catch of a handler of App.
ErrorAfter(outcome) == IF outcome.ok THEN appError ELSE ErrorMessage

\* isMessagingConfigured with the test of the text field inverted.
isMessagingConfiguredWithoutText(cfg) ==
    /\ cfg.affiliateCommentsTableId # ""
    /\ cfg.affiliateCommentsLeadLinkField # ""
    /\ ~(cfg.affiliateCommentsTextField # "")

isMessagingConfigured(cfg) ==
    /\ cfg.affiliateCommentsTableId # ""
    /\ cfg.affiliateCommentsLeadLinkField # ""
    /\ cfg.affiliateCommentsTextField # ""

\* The prop App passes to LeadsTable.
messagingEnabled == isMessagingConfigured(config)

\* LeadsTable is rendered, with its rows.
TableShown == ~isInitialLoading /\ leads # <<>>

\* The detail panel is rendered.
SheetShown == TableShown /\ isOpen /\ selectedLead # NoLead

\* The message input is not disabled.
InputEnabled == messagingEnabled

\* The send button is not disabled.
SendEnabled ==
    messagingEnabled /\ Trim(messageText) # <<>> /\ ~isSendingMessage

\* The refresh button can be clicked: it is rendered, not disabled, and
\* not behind the open panel.
RefreshEnabled ==
    /\ ~isInitialLoading
    /\ ~isRefreshing
    /\ ~(leads # <<>> /\ isOpen)

unmountedVars == <<config, fetchVars, decodeVars, adapterVars>>

\* The refresh button: loadLeads up to its await.
Refresh ==
    /\ RefreshEnabled
    /\ Len(tasks) < MaxCalls
    /\ isRefreshing' = TRUE
    /\ appError' = "null"
    /\ tasks' = Append(tasks, Task("loadLeads", "fetchLeads", NoLead, <<>>))
    /\ UNCHANGED <<leads, isInitialLoading, formVars, tableVars>>
    /\ UNCHANGED unmountedVars

\* loadLeads from its await to its end.
LoadLeadsDone(i, outcome) ==
    /\ TaskAwaits(i, "loadLeads", "fetchLeads")
    /\ leads' = LeadsAfterLoad(i, outcome)
    /\ appError' = ErrorAfter(outcome)
    /\ isRefreshing' = FALSE
    /\ isInitialLoading' = FALSE
    /\ Ends(i, <<outcome>>)
    /\ UNCHANGED <<formVars, tableVars>>
    /\ UNCHANGED unmountedVars

\* A click on the row of a lead: handleRowClick and loadComments up to the
\* await of onLoadComments.
handleRowClick(l) ==
    /\ TableShown
    /\ ~isOpen
    /\ l \in Range(leads)
    /\ Len(tasks) < MaxCalls
    /\ selectedLead' = l
    /\ isOpen' = TRUE
    /\ messageText' = <<>>
    /\ comments' = <<>>
    /\ isCommentsLoading' = TRUE
    /\ tasks' = Append(tasks, Task("handleRowClick", "loadComments", l, <<>>))
    /\ UNCHANGED <<appVars, formVars, isSendingMessage>>
    /\ UNCHANGED unmountedVars

\* handleLoadComments: the thread, or [] when the load fails.
Loaded(outcome) == IF outcome.ok THEN outcome.data ELSE <<>>

\* handleRowClick from the outcome of the load to its end.
CommentsLoaded(i, outcome) ==
    /\ TaskAwaits(i, "handleRowClick", "loadComments")
    /\ comments' = Loaded(outcome)
    /\ appError' = ErrorAfter(outcome)
    /\ isCommentsLoading' = FALSE
    /\ Ends(i, <<>>)
    /\ UNCHANGED <<leads, isRefreshing, isInitialLoading, formVars,
                   selectedLead, isOpen, messageText, isSendingMessage>>
    /\ UNCHANGED unmountedVars

\* The panel is closed: onOpenChange(false).
CloseSheet ==
    /\ SheetShown
    /\ isOpen' = FALSE
    /\ UNCHANGED <<appVars, formVars, selectedLead, messageText,
                   isSendingMessage, comments, isCommentsLoading, tasks>>
    /\ UNCHANGED unmountedVars

\* The operator types in the message input.
TypeMessage(text) ==
    /\ SheetShown
    /\ InputEnabled
    /\ messageText' = text
    /\ UNCHANGED <<appVars, formVars, selectedLead, isOpen, isSendingMessage,
                   comments, isCommentsLoading, tasks>>
    /\ UNCHANGED unmountedVars

\* handleSendMessage up to the await of onSendMessage; it returns at once
\* without a selected lead or without text.
handleSendMessage ==
    /\ Len(tasks) < MaxCalls
    /\ IF selectedLead = NoLead \/ Trim(messageText) = <<>>
       THEN UNCHANGED <<appVars, tableVars, tasks>>
       ELSE /\ isSendingMessage' = TRUE
            /\ appError' = "null"
            /\ tasks' = Append(tasks,
                               Task("handleSendMessage", "sendAffiliateMessage",
                                    selectedLead, Trim(messageText)))
            /\ UNCHANGED <<leads, isRefreshing, isInitialLoading,
                           selectedLead, isOpen, messageText, comments,
                           isCommentsLoading>>
    /\ UNCHANGED formVars
    /\ UNCHANGED unmountedVars

\* A click on the send button.
ClickSend == SheetShown /\ SendEnabled /\ handleSendMessage

\* The Enter key in the message input.
PressEnter == SheetShown /\ InputEnabled /\ handleSendMessage

\* A handleSendMessage that leaves the draft after a send.
SendDoneKeepingDraft(i, outcome) ==
    /\ TaskAwaits(i, "handleSendMessage", "sendAffiliateMessage")
    /\ IF outcome.ok
       THEN /\ comments' = <<>>
            /\ isCommentsLoading' = TRUE
            /\ Awaits(i, "loadComments", <<outcome>>)
            /\ UNCHANGED <<appError, isSendingMessage, messageText>>
       ELSE /\ appError' = ErrorMessage
            /\ isSendingMessage' = FALSE
            /\ Ends(i, <<outcome>>)
            /\ UNCHANGED <<messageText, comments, isCommentsLoading>>
    /\ UNCHANGED <<leads, isRefreshing, isInitialLoading, formVars,
                   selectedLead, isOpen>>
    /\ UNCHANGED unmountedVars

\* handleSendMessage from the outcome of the send: to the await of the
\* comments of the lead of its closure when it succeeded, to its end when
\* it failed.
SendDone(i, outcome) ==
    /\ TaskAwaits(i, "handleSendMessage", "sendAffiliateMessage")
    /\ IF outcome.ok
       THEN /\ messageText' = <<>>
            /\ comments' = <<>>
            /\ isCommentsLoading' = TRUE
            /\ Awaits(i, "loadComments", <<outcome>>)
            /\ UNCHANGED <<appError, isSendingMessage>>
       ELSE /\ appError' = ErrorMessage
            /\ isSendingMessage' = FALSE
            /\ Ends(i, <<outcome>>)
            /\ UNCHANGED <<messageText, comments, isCommentsLoading>>
    /\ UNCHANGED <<leads, isRefreshing, isInitialLoading, formVars,
                   selectedLead, isOpen>>
    /\ UNCHANGED unmountedVars

\* handleSendMessage from the outcome of the comments to the await of
\* onRefresh: the end of loadComments, then loadLeads up to its await.
SendCommentsLoaded(i, outcome) ==
    /\ TaskAwaits(i, "handleSendMessage", "loadComments")
    /\ comments' = Loaded(outcome)
    /\ isCommentsLoading' = FALSE
    /\ isRefreshing' = TRUE
    /\ appError' = "null"
    /\ Awaits(i, "fetchLeads", tasks[i].got)
    /\ UNCHANGED <<leads, isInitialLoading, formVars, selectedLead, isOpen,
                   messageText, isSendingMessage>>
    /\ UNCHANGED unmountedVars

\* handleSendMessage from the outcome of the refresh to its end.
SendRefreshed(i, outcome) ==
    /\ TaskAwaits(i, "handleSendMessage", "fetchLeads")
    /\ leads' = LeadsAfterLoad(i, outcome)
    /\ appError' = ErrorAfter(outcome)
    /\ isRefreshing' = FALSE
    /\ isInitialLoading' = FALSE
    /\ isSendingMessage' = FALSE
    /\ Ends(i, <<outcome>>)
    /\ UNCHANGED <<formVars, selectedLead, isOpen, messageText, comments,
                   isCommentsLoading>>
    /\ UNCHANGED unmountedVars

\* What an adapter operation may settle to.
LeadsOutcomes == {Resolved(list) : list \in LeadLists} \cup {Rejected}

ThreadOutcomes(l) == {Resolved(thread) : thread \in Threads(l)} \cup {Rejected}

SendOutcomes == {Resolved(<<>>), Rejected}

\* The environments of the dashboard: the comment settings left to their
\* defaults, or set.
AppEnvs ==
    {BaseEnv,
     [BaseEnv EXCEPT !["AFFILIATE_COMMENTS_TABLE_ID"] = "tblComments",
                     !["AFFILIATE_COMMENT_LEAD_LINK_FIELD"] = "Buyer",
                     !["AFFILIATE_COMMENT_TEXT_FIELD"] = "Body"]}

\* After the mount: the effect has called loadLeads, which awaits.
Mounted ==
    /\ leads = <<>>
    /\ isRefreshing = TRUE
    /\ isInitialLoading = TRUE
    /\ appError = "null"
    /\ formData = initialState
    /\ isSubmitting = FALSE
    /\ selectedLead = NoLead
    /\ isOpen = FALSE
    /\ messageText = <<>>
    /\ isSendingMessage = FALSE
    /\ comments = <<>>
    /\ isCommentsLoading = FALSE
    /\ tasks = <<Task("loadLeads", "fetchLeads", NoLead, <<>>)>>

AppInit ==
    /\ config \in {ConfigOf(env) : env \in AppEnvs}
    /\ FetchIdle
    /\ DecodeIdle
    /\ AdapterIdle
    /\ Mounted

AppNext ==
    \/ Refresh
    \/ \E i \in 1..Len(tasks), outcome \in LeadsOutcomes :
          LoadLeadsDone(i, outcome)
    \/ \E l \in {LeadA, LeadB} : handleRowClick(l)
    \/ \E i \in 1..Len(tasks) :
          /\ TaskAwaits(i, "handleRowClick", "loadComments")
          /\ \E outcome \in ThreadOutcomes(tasks[i].lead) :
                CommentsLoaded(i, outcome)
    \/ CloseSheet
    \/ \E text \in Drafts : TypeMessage(text)
    \/ ClickSend
    \/ PressEnter
    \/ \E i \in 1..Len(tasks), outcome \in SendOutcomes : SendDone(i, outcome)
    \/ \E i \in 1..Len(tasks) :
          /\ TaskAwaits(i, "handleSendMessage", "loadComments")
          /\ \E outcome \in ThreadOutcomes(tasks[i].lead) :
                SendCommentsLoaded(i, outcome)
    \/ \E i \in 1..Len(tasks), outcome \in LeadsOutcomes :
          SendRefreshed(i, outcome)

SpecApp == AppInit /\ [][AppNext]_vars

----------------------------------------------------------------------------
(* LeadForm and App.handleSubmitLead.  The form holds six strings; the     *)
(* submit button is disabled while a submission is pending.  createLead    *)
(* resolves to the created Lead or rejects.  The list is loaded once, by   *)
(* the mount effect.                                                       *)

\* The Lead createLead resolves to.
LeadC == "recC"

\* What the operator may type into a field.
FieldTexts(field) ==
    CASE field = "name" -> {<<>>, <<" ">>, <<" ", "A", "l">>}
      [] field = "affiliateEmail" -> {<<>>, <<" ">>, <<"a", "@", "b", " ">>}
      [] OTHER -> {<<>>, <<" ", "x", " ">>}

FieldNames == DOMAIN initialState

\* onChange of an input: setFormData({ ...formData, [field]: value }).
ChangeField(field, value) ==
    /\ formData[field] # value
    /\ formData' = [formData EXCEPT ![field] = value]
    /\ UNCHANGED <<appVars, isSubmitting, tableVars, tasks>>
    /\ UNCHANGED unmountedVars

\* A validation that does not trim.
RequiredFieldsFilledUntrimmed(data) ==
    ~(data.name = <<>> \/ data.affiliateEmail = <<>>)

\* The test of handleSubmit, negated: both required fields hold text.
RequiredFieldsFilled(data) ==
    ~(Trim(data.name) = <<>> \/ Trim(data.affiliateEmail) = <<>>)

\* The argument handleSubmit passes to onSubmit.
Trimmed(data) == [field \in DOMAIN data |-> Trim(data[field])]

\* A submit of the form: handleSubmit, which returns at once on a blank
\* required field, and handleSubmitLead up to the await of createLead.
handleSubmit ==
    /\ ~isSubmitting
    /\ Len(tasks) <= MaxSubmits
    /\ IF RequiredFieldsFilled(formData)
       THEN /\ isSubmitting' = TRUE
            /\ appError' = "null"
            /\ tasks' = Append(tasks,
                   [Task("handleSubmit", "createLead", NoLead, <<>>)
                       EXCEPT !.input = Trimmed(formData)])
       ELSE /\ tasks' = Append(tasks,
                               Task("handleSubmit", "returned", NoLead, <<>>))
            /\ UNCHANGED <<isSubmitting, appError>>
    /\ UNCHANGED <<leads, isRefreshing, isInitialLoading, formData, tableVars>>
    /\ UNCHANGED unmountedVars

\* handleSubmitLead and handleSubmit from the outcome of createLead to
\* their end.
SubmitDone(i, outcome) ==
    /\ TaskAwaits(i, "handleSubmit", "createLead")
    /\ IF outcome.ok
       THEN /\ leads' = <<outcome.data>> \o leads
            /\ formData' = initialState
            /\ UNCHANGED appError
       ELSE /\ appError' = ErrorMessage
            /\ UNCHANGED <<leads, formData>>
    /\ isSubmitting' = FALSE
    /\ Ends(i, <<outcome>>)
    /\ UNCHANGED <<isRefreshing, isInitialLoading, tableVars>>
    /\ UNCHANGED unmountedVars

CreateOutcomes == {Resolved(LeadC), Rejected}

FormInit ==
    /\ config = ConfigOf(BaseEnv)
    /\ FetchIdle
    /\ DecodeIdle
    /\ AdapterIdle
    /\ Mounted

FormNext ==
    \/ \E field \in FieldNames : \E value \in FieldTexts(field) :
          ChangeField(field, value)
    \/ handleSubmit
    \/ \E i \in 1..Len(tasks), outcome \in CreateOutcomes :
          SubmitDone(i, outcome)
    \/ \E i \in 1..Len(tasks), outcome \in LeadsOutcomes :
          LoadLeadsDone(i, outcome)

SpecForm == FormInit /\ [][FormNext]_vars

----------------------------------------------------------------------------
(* Properties of the paginated fetcher and of the thread loader (Spec).    *)

Unfiltered(request) == request.filterByFormula = NoFormula

\* A string that is empty or holds white space only.
Blank(s) == \A i \in 1..Len(s) : s[i] \in WhiteSpace

Ids(seq) == {seq[i].id : i \in 1..Len(seq)}

\* C1: when fetchAllRecords returns, the endpoint has served N pages of
\* which all but the last carried a continuation token; the call has issued
\* exactly N requests, the first without an offset and each later one with
\* the token of the response before it; and it returns the records of the N
\* pages in page order, each once.
AllPagesInOrder ==
    call = "returned" =>
        LET N == Len(responses)
        IN  /\ N >= 1
            /\ Len(requests) = N
            /\ requests[1].offset = NoOffset
            /\ \A i \in 2..N : requests[i].offset = responses[i - 1].offset
            /\ \A i \in 1..(N - 1) : responses[i].offset # NoOffset
            /\ responses[N].offset = NoOffset
            /\ fetched = Served(responses)
            /\ Cardinality(Ids(fetched)) = Len(Served(responses))

\* A call that returned after three pages, two of them holding a record.
ThreePagesFetched ==
    /\ call = "returned"
    /\ Len(responses) = 3
    /\ Len(responses[1].records) = 1
    /\ Len(responses[3].records) = 1
    /\ Len(fetched) = 2

\* C2: a response that is not a success is the last of its call: the call
\* throws at once, issues no request after it, and never returns; the
\* caller of a call that threw holds none of the records of the pages that
\* came before.
FailsAtFirstNotOk ==
    /\ \A i \in 1..Len(responses) :
          ~responses[i].ok =>
              /\ i = Len(responses)
              /\ Len(requests) = i
              /\ call = "threw"
    /\ call = "returned" => \A i \in 1..Len(responses) : responses[i].ok
    /\ pc = "threw" => records = <<>> /\ result = <<>>
    /\ (primary = "threw" /\ pc = "fallback" /\ responses = <<>>) =>
          records = <<>>

\* A call that threw on its second page, after a page of records.
ThrewAfterAPage ==
    /\ call = "threw"
    /\ Len(responses) = 2
    /\ fetched # <<>>
    /\ ~responses[2].ok

\* C3: a primary call that threw, on whichever page, is followed by the
\* fallback scan starting from no records and with no error raised; a
\* fallback call that threw is followed by the error reaching the caller,
\* and it is the only request failure that does.
PrimaryFailureSwallowed ==
    [][/\ (pc = "primary" /\ call = "threw") =>
              /\ pc' = "fallback"
              /\ call' = "running"
              /\ records' = <<>>
              /\ error' = ""
       /\ (pc = "fallback" /\ call = "threw") =>
              /\ pc' = "threw"
              /\ error' = "request"
       /\ (pc' = "threw" /\ error' = "request") =>
              (pc = "fallback" /\ call = "threw")]_vars

\* The primary query failed on its second page, and the fallback scan gave
\* the comments.
ScannedAfterPrimaryFailure ==
    /\ pc = "done"
    /\ primary = "threw"
    /\ result # <<>>
    /\ \A i \in 1..Len(requests) : Unfiltered(requests[i])

\* C4: an unfiltered request is issued only after the primary query gave no
\* record or failed, and in that case the scan is what the call goes on
\* with; when the primary query returns a record, the call ends with no
\* unfiltered request, its records are the primary ones, unfiltered by
\* link, and every one of them with text is in the result.
FallbackIffPrimaryEmpty ==
    /\ (\E i \in 1..Len(requests) : Unfiltered(requests[i])) =>
          primary \in {"threw", "empty"}
    /\ primary \in {"threw", "empty"} =>
          /\ pc \in {"fallback", "done", "threw"}
          /\ pc \in {"done", "threw"} =>
                /\ requests # <<>>
                /\ \A i \in 1..Len(requests) : Unfiltered(requests[i])
    /\ primary = "records" =>
          /\ pc = "done"
          /\ fetched # <<>>
          /\ \A i \in 1..Len(requests) : ~Unfiltered(requests[i])
          /\ records = fetched
          /\ Ids(result) =
                {fetched[i].id : i \in {j \in 1..Len(fetched) :
                    ~Blank(CommentOfRecord(fetched[j], config).text)}}
    /\ (pc = "done" /\ primary = "pending") => FALSE

\* The primary query returned a record that does not link to the lead, and
\* its comment is in the result.
PrimaryRecordsKeptUnfiltered ==
    /\ pc = "done"
    /\ primary = "records"
    /\ \E i \in 1..Len(records) :
          /\ ~recordLinksToLead(records[i], leadId)
          /\ records[i].id \in Ids(result)

\* A record links to a lead: some field is a string that contains the id,
\* or an array with an element that is the id or an object whose id it is.
LinksTo(record, id) ==
    \E key \in DOMAIN record.fields :
        \/ /\ record.fields[key].t = "string"
           /\ \E i \in 1..(Len(record.fields[key].s) - Len(id) + 1) :
                 SubSeq(record.fields[key].s, i, i + Len(id) - 1) = id
        \/ /\ record.fields[key].t = "array"
           /\ \E i \in 1..Len(record.fields[key].a) :
                 \/ record.fields[key].a[i] = StrV(id)
                 \/ record.fields[key].a[i] = ObjId(id)

\* C5: when the fallback scan ends, the records the comments are made from
\* are exactly the records of the unfiltered list that link to leadId, in
\* the list's order, and every comment returned is of one of them.
ScanKeepsLinkedRecords ==
    (pc = "done" /\ primary # "records") =>
        /\ records = SelectSeq(fetched, LAMBDA r : LinksTo(r, leadId))
        /\ \A j \in 1..Len(result) :
              \E i \in 1..Len(fetched) :
                  /\ fetched[i].id = result[j].id
                  /\ LinksTo(fetched[i], leadId)

\* The scan met a record linked through an array of objects and one that
\* is not linked: the first gave a comment, the second none.
ScanFoundLinkedObject ==
    /\ pc = "done"
    /\ primary = "threw"
    /\ Len(fetched) = 2
    /\ Field(fetched[1].fields, "Lead") = ArrV(<<StrV(R10), ObjNoId, Null, NumV(1)>>)
    /\ Field(fetched[2].fields, "Lead") = ArrV(<<ObjId(R2), ObjId(R1)>>)
    /\ Ids(result) = {fetched[2].id}

\* C6: the comments returned are in ascending order of creation time.
ResultAscending ==
    pc = "done" =>
        \A i \in 1..(Len(result) - 1) :
            result[i].createdTime <= result[i + 1].createdTime

\* The endpoint served the later record first, and the result has the
\* earlier one first.
ResultReordered ==
    /\ pc = "done"
    /\ Len(records) = 2
    /\ Len(result) = 2
    /\ records[1].createdTime > records[2].createdTime
    /\ result[1].id = records[2].id
    /\ result[2].id = records[1].id

\* C7: no comment of the result has a text that is empty or white space
\* only, and every record the active strategy selected whose decoded text
\* is not blank has its comment in the result.
NoBlankComments ==
    pc = "done" =>
        /\ \A j \in 1..Len(result) : ~Blank(result[j].text)
        /\ \A i \in 1..Len(records) :
              ~Blank(CommentOfRecord(records[i], config).text) =>
                  \E j \in 1..Len(result) :
                      /\ result[j].id = records[i].id
                      /\ result[j].text = CommentOfRecord(records[i], config).text

\* A record with a white-space text was dropped, and one with text kept.
BlankCommentDropped ==
    /\ pc = "done"
    /\ Len(records) = 2
    /\ Len(result) = 1
    /\ Field(records[1].fields, "Comment") = StrV(<<" ", "\n">>)
    /\ result[1].id = records[2].id

----------------------------------------------------------------------------
(* Properties of the decoders (SpecDecode).                                *)

\* The text of the first candidate column that yields non-empty text, the
\* empty string when none does.
RECURSIVE FirstNonEmptyText(_, _)
FirstNonEmptyText(fields, candidates) ==
    IF candidates = <<>> THEN <<>>
    ELSE LET value == parseText(Field(fields, Head(candidates)))
         IN  IF value.t = "string" /\ value.s # <<>> THEN value.s
             ELSE FirstNonEmptyText(fields, Tail(candidates))

\* C8: the text of a decoded comment is the text of the first candidate
\* column (the configured text column, then Comment, Message, Affiliate
\* Comment, Text, Name) that yields non-empty text; an earlier candidate
\* holding the empty string does not keep a later one from being taken.
TextFromFirstNonEmptyCandidate ==
    comment # <<>> =>
        comment[1].text = FirstNonEmptyText(raw.fields, TextCandidates(config))

\* The word of a known status, as the LeadStatus literal.
StatusLiteral(w) ==
    CASE w = <<"n","e","w">> -> "new"
      [] w = <<"c","o","n","t","a","c","t","e","d">> -> "contacted"
      [] w = <<"q","u","a","l","i","f","i","e","d">> -> "qualified"
      [] w = <<"c","o","n","v","e","r","t","e","d">> -> "converted"
      [] OTHER -> "lost"

\* s is w but for the case of its letters.
SameButCase(s, w) ==
    /\ Len(s) = Len(w)
    /\ \A i \in 1..Len(w) : s[i] \in {w[i], ToUpperChar(w[i])}

\* C9: the status of a decoded Lead is one of the six LeadStatus values: a
\* raw string that is a known literal in any case decodes to that literal,
\* and every other raw value (another string, the empty string, a number,
\* null, a missing field) decodes to unknown.
StatusAlwaysEnumerated ==
    lead # <<>> =>
        LET v == Field(raw.fields, config.fieldStatus)
            known == {w \in KnownStatuses : v.t = "string" /\ SameButCase(v.s, w)}
        IN  /\ lead[1].status \in LeadStatus
            /\ \A w \in known : lead[1].status = StatusLiteral(w)
            /\ known = {} => lead[1].status = "unknown"

\* A status in mixed case decoded to its literal.
MixedCaseStatusDecoded ==
    /\ lead # <<>>
    /\ Field(raw.fields, config.fieldStatus) = StrV(<<"Q","u","A","L","i","f","i","E","d">>)
    /\ lead[1].status = "qualified"

\* A string of decimal digits, with an optional sign.
IsWholeLiteral(s) ==
    LET u == IF s # <<>> /\ Head(s) \in {"+", "-"} THEN Tail(s) ELSE s
    IN  u # <<>> /\ IsDigits(u)

WholeValue(s) ==
    IF Head(s) = "-" THEN -DigitsVal(Tail(s))
    ELSE IF Head(s) = "+" THEN DigitsVal(Tail(s))
    ELSE DigitsVal(s)

\* The raw value is numeric: a finite number, or a string Number() reads as
\* a finite number.
IsNumericRaw(v) ==
    \/ v.t = "number" /\ v.k = "fin"
    \/ v.t = "string" /\ StringToNumber(v.s).k = "fin"

\* What parseNumber gives for every raw value: a finite number, which is
\* the raw number when that is finite, the number a raw string writes when
\* Number() reads it as finite, and 0 for every other raw value.
CountDecodesRawValue ==
    lead # <<>> =>
        LET v == Field(raw.fields, config.fieldCcComments)
            count == lead[1].ccComments
        IN  /\ count.t = "number" /\ count.k = "fin"
            /\ (v.t = "number" /\ v.k = "fin") => count = v
            /\ (v.t = "string" /\ IsWholeLiteral(v.s)) =>
                  count = NumV(WholeValue(v.s))
            /\ (v.t = "string" /\ StringToNumber(v.s).k = "fin") =>
                  count = StringToNumber(v.s)
            /\ ~IsNumericRaw(v) => count = NumV(0)

\* C10: the partner-comment count of a decoded Lead is a non-negative
\* integer, for every remote record; a numeric raw value (a number or a
\* numeric string) decodes to its value, and an absent, non-numeric or
\* non-finite one to 0.
CountIsNonNegativeInteger ==
    /\ CountDecodesRawValue
    /\ lead # <<>> =>
          /\ lead[1].ccComments.d = 0
          /\ lead[1].ccComments.n >= 0

----------------------------------------------------------------------------
(* Properties of fetchLeads, createLead and sendAffiliateMessage           *)
(* (SpecAdapter).                                                          *)

\* The field map of the POST an operation has sent.
SentFields == sent[1].body.records[1].fields

\* The optional inputs of createLead, each with its destination column.
Optionals ==
    {<<config.fieldLeadEmail, input.leadEmail>>,
     <<config.fieldLeadPhone, input.leadPhone>>,
     <<config.fieldNotes, input.notes>>,
     <<config.fieldAffiliateComments, input.initialMessage>>}

\* An input that is set and not empty.
NonEmpty(value) == value.t = "string" /\ value.s # <<>>

\* C11: in the field map createLead sends, the column of an optional input
\* is present if and only if the input is non-empty and the column is
\* configured, and then it holds the input; the map holds nothing else but
\* the name, the rep email and the status literal New, which are always
\* there; no column is sent for an unset or empty optional input.
OptionalFieldsSentIffSet ==
    (op = "createLead" /\ sent # <<>>) =>
        /\ \A o \in Optionals :
              /\ (o[1] # "" /\ o[1] \in DOMAIN SentFields)
                    <=> (o[1] # "" /\ NonEmpty(o[2]))
              /\ (o[1] # "" /\ NonEmpty(o[2])) => SentFields[o[1]] = o[2]
        /\ DOMAIN SentFields =
              {config.fieldName, config.fieldRepEmail, config.fieldStatus}
              \cup {o[1] : o \in {x \in Optionals : x[1] # "" /\ NonEmpty(x[2])}}
        /\ SentFields[config.fieldName] = input.name
        /\ SentFields[config.fieldRepEmail] = input.affiliateEmail
        /\ SentFields[config.fieldStatus] = StrV(New)

\* A lead was sent whose email is unset, whose phone is empty, whose notes
\* have no column and whose message has one: four columns went out.
OnlyMessageSentOfOptionals ==
    /\ op = "createLead"
    /\ sent # <<>>
    /\ config.fieldLeadEmail # "" /\ input.leadEmail = Undef
    /\ config.fieldLeadPhone # "" /\ input.leadPhone = StrV(<<>>)
    /\ config.fieldNotes = "" /\ NonEmpty(input.notes)
    /\ config.fieldAffiliateComments # "" /\ input.initialMessage = StrV(Hi)
    /\ Cardinality(DOMAIN SentFields) = 4

\* createLead has returned the Lead of a record that echoes the fields it
\* sent, for an input with every optional field populated and configured.
EchoedFullInput ==
    /\ op = "createLead"
    /\ opState = "returned"
    /\ \A o \in Optionals : o[1] # "" /\ NonEmpty(o[2])
    /\ reply.records[1].fields = SentFields

\* C12 as stated: decoding the record that echoes what createLead sent
\* recovers the same name, the same rep email and the status literal New.
RoundTripRecoversNew ==
    EchoedFullInput =>
        /\ output[1].name = input.name.s
        /\ output[1].psRepEmail = input.affiliateEmail
        /\ output[1].status = "New"

\* C12: decoding the record that echoes what createLead sent recovers the
\* same rep email, the same name when the name is not empty (Unnamed Lead
\* when it is), and the status new, which the sent literal New decodes to.
RoundTripRecoversLead ==
    EchoedFullInput =>
        /\ output[1].name =
              IF input.name.s # <<>> THEN input.name.s ELSE UnnamedLead
        /\ output[1].psRepEmail = input.affiliateEmail
        /\ output[1].status = "new"
        /\ normalizeStatus(SentFields[config.fieldStatus]) = output[1].status

\* A full input named Al came back as the Lead named Al, of status new.
FullInputRoundTripped ==
    /\ EchoedFullInput
    /\ input.name = StrV(Al)
    /\ input.affiliateEmail = StrV(Mail)
    /\ output[1].name = Al
    /\ output[1].status = "new"

\* C16: fetchLeads issues one request, with no offset, whatever token the
\* response carries; it returns one Lead per record of that response, in
\* the response's order, each with the id of its record; on a response
\* that is not a success it throws and returns nothing.
FetchLeadsSingleRequest ==
    op = "fetchLeads" =>
        /\ Len(sent) <= 1
        /\ sent # <<>> => sent[1].offset = NoOffset /\ sent[1].method = "GET"
        /\ opState = "returned" =>
              /\ Len(sent) = 1
              /\ reply.ok
              /\ Len(output) = Len(reply.records)
              /\ \A i \in 1..Len(output) :
                    /\ output[i].id = reply.records[i].id
                    /\ output[i] = mapRecordToLead(reply.records[i], config)
        /\ (opState # "awaiting" /\ sent # <<>> /\ ~reply.ok) =>
              /\ opState = "threw"
              /\ output = <<>>

\* A response of two records and a continuation token gave two Leads.
TokenIgnored ==
    /\ op = "fetchLeads"
    /\ opState = "returned"
    /\ reply.offset # NoOffset
    /\ Len(output) = 2
    /\ output[1].id = RecId(1)
    /\ output[2].id = RecId(2)
    /\ output[1].status # output[2].status

----------------------------------------------------------------------------
(* Properties of the configuration checks (SpecConfig).                    *)

SettingNames ==
    {"VITE_AIRTABLE_TOKEN", "VITE_AIRTABLE_BASE_ID", "VITE_AIRTABLE_TABLE_ID",
     "VITE_AIRTABLE_AFFILIATE_COMMENTS_TABLE_ID"}

\* The settings a message names.
NamedIn(text) == {text[i] : i \in 1..Len(text)} \cap SettingNames

\* The operation that was called, if one was.
Called == IF pc # "idle" THEN "fetchAffiliateCommentsForLead" ELSE op

OnLeadsTable == {"fetchLeads", "createLead"}

OnCommentsTable == {"sendAffiliateMessage", "fetchAffiliateCommentsForLead"}

\* The settings an operation requires: the credential, the store
\* identifier and the identifier of the table it uses.
RequiredBy(operation) ==
    {"VITE_AIRTABLE_TOKEN", "VITE_AIRTABLE_BASE_ID"}
    \cup (IF operation \in OnLeadsTable
          THEN {"VITE_AIRTABLE_TABLE_ID"}
          ELSE {"VITE_AIRTABLE_AFFILIATE_COMMENTS_TABLE_ID"})

\* The value the configuration has for a setting.
SettingValue(name) ==
    CASE name = "VITE_AIRTABLE_TOKEN" -> config.token
      [] name = "VITE_AIRTABLE_BASE_ID" -> config.baseId
      [] name = "VITE_AIRTABLE_TABLE_ID" -> config.tableId
      [] name = "VITE_AIRTABLE_AFFILIATE_COMMENTS_TABLE_ID" ->
            config.affiliateCommentsTableId

MissingFor(operation) == {n \in RequiredBy(operation) : SettingValue(n) = ""}

\* The operation that was called threw before any request.
ThrewBeforeAnyRequest ==
    /\ sent = <<>>
    /\ requests = <<>>
    /\ IF Called = "fetchAffiliateCommentsForLead"
       THEN pc = "threw" /\ error = "config"
       ELSE opState = "threw"

\* C14 as stated: an operation called while a setting it requires is
\* missing throws before any request, and the message of the error names
\* exactly the settings that are missing.
ConfigErrorNamesExactlyMissing ==
    (Called # "none" /\ MissingFor(Called) # {}) =>
        /\ ThrewBeforeAnyRequest
        /\ NamedIn(message) = MissingFor(Called)

\* C14: an operation called while a setting it requires is missing throws
\* before any request, and the message of the error names the three
\* settings the operation requires, the missing ones among them, whichever
\* of the three is missing.
ConfigErrorNamesRequired ==
    (Called # "none" /\ MissingFor(Called) # {}) =>
        /\ ThrewBeforeAnyRequest
        /\ NamedIn(message) = RequiredBy(Called)
        /\ MissingFor(Called) \subseteq NamedIn(message)

\* createLead was called with only the table id missing, and threw.
CreateLeadWithoutTableThrew ==
    /\ op = "createLead"
    /\ opState = "threw"
    /\ MissingFor("createLead") = {"VITE_AIRTABLE_TABLE_ID"}
    /\ sent = <<>>
    /\ "VITE_AIRTABLE_TOKEN" \in NamedIn(message)


----------------------------------------------------------------------------
(* Properties of App and LeadsTable (SpecApp).                             *)

\* The three comment settings of a configuration hold values.
CommentSettingsPresent(cfg) ==
    /\ cfg.affiliateCommentsTableId # ""
    /\ cfg.affiliateCommentsLeadLinkField # ""
    /\ cfg.affiliateCommentsTextField # ""

\* The configuration with some of the comment settings blank.
Blanked(cfg, settings) ==
    [k \in DOMAIN cfg |-> IF k \in settings THEN "" ELSE cfg[k]]

\* The calls of handleSendMessage that went past its early return.
SendCalls == {i \in 1..Len(tasks) : tasks[i].kind = "handleSendMessage"}

\* C15: isMessagingConfigured is true when the comments table id, the
\* lead-link field and the text field all hold a value and false when any
\* of them is blank; the message input and the send button are enabled,
\* a draft is typed and a send is started only when it is true.
MessagingEnabledOnlyWhenConfigured ==
    /\ \A settings \in SUBSET {"affiliateCommentsTableId",
                               "affiliateCommentsLeadLinkField",
                               "affiliateCommentsTextField"} :
          isMessagingConfigured(Blanked(config, settings)) <=> settings = {}
    /\ isMessagingConfigured(config) <=> CommentSettingsPresent(config)
    /\ (InputEnabled \/ SendEnabled) => CommentSettingsPresent(config)
    /\ (messageText # <<>> \/ SendCalls # {}) => CommentSettingsPresent(config)

\* A draft stands in the enabled input of a dashboard whose comment
\* settings are set, and the send button is enabled.
SendButtonEnabledWhenConfigured ==
    /\ config.affiliateCommentsTableId = "tblComments"
    /\ SheetShown
    /\ InputEnabled
    /\ SendEnabled
    /\ messageText = Hi

\* Call i was given the outcome of fetchLeads in this step.
LoadSettles(i) ==
    /\ i \in 1..Len(tasks)
    /\ tasks[i].awaits = "fetchLeads"
    /\ tasks'[i].awaits = "done"

\* C17: whenever fetchLeads resolves for a call of loadLeads, the list it
\* resolved to becomes the displayed list, whatever calls were made after
\* it and whether or not they have completed, and nothing else changes
\* the displayed list; so after overlapping loads the list is that of the
\* response that arrived last.
LastArrivedListShown ==
    [][/\ \A i \in 1..Len(tasks) :
             (LoadSettles(i) /\ tasks'[i].got[1].ok)
                => leads' = tasks'[i].got[1].data
       /\ leads' # leads =>
             \E i \in 1..Len(tasks) : LoadSettles(i) /\ tasks'[i].got[1].ok
      ]_vars

\* Call i resolved to a list.
LoadedList(i) ==
    /\ tasks[i].awaits = "done"
    /\ tasks[i].got # <<>>
    /\ tasks[i].got[1].ok

\* Two loads overlapped, the one called later completed first, and the
\* list displayed is that of the one called earlier, which no other call
\* resolved to.
EarlierLoadArrivedLast ==
    \E i, j \in 1..Len(tasks) :
        /\ i < j
        /\ tasks[i].kind = "loadLeads"
        /\ LoadedList(i)
        /\ LoadedList(j)
        /\ leads = tasks[i].got[1].data
        /\ \A k \in 1..Len(tasks) :
              (k # i /\ LoadedList(k)) => tasks[k].got[1].data # leads

\* Call i of handleSendMessage was given the outcome of what it awaited.
SendCallSettles(i, operation) ==
    /\ i \in SendCalls
    /\ tasks[i].awaits = operation
    /\ tasks'[i].awaits # operation

\* C18: when the send of a call of handleSendMessage succeeds, the draft
\* is cleared and the comments of the lead the message was sent for (the
\* lead selected when the send was made) are fetched, with nothing else
\* in between; when those have come, whether or not the load failed, the
\* lead list is fetched; the call fetches comments only after its send
\* succeeded and the list only after its comments.  When the send fails,
\* the call ends there with the draft kept.  Whenever the call ends the
\* sending flag is false.
SendThenCommentsThenLeads ==
    [][\A i \in SendCalls :
          /\ (SendCallSettles(i, "sendAffiliateMessage") /\ tasks'[i].got[1].ok)
                => /\ messageText' = <<>>
                   /\ tasks'[i].awaits = "loadComments"
                   /\ tasks'[i].lead = tasks[i].lead
                   /\ isCommentsLoading'
          /\ (SendCallSettles(i, "sendAffiliateMessage") /\ ~tasks'[i].got[1].ok)
                => /\ messageText' = messageText
                   /\ tasks'[i].awaits = "done"
                   /\ ~isSendingMessage'
          /\ SendCallSettles(i, "loadComments")
                => /\ tasks'[i].awaits = "fetchLeads"
                   /\ isRefreshing'
          /\ (tasks'[i].awaits = "loadComments" /\ tasks[i].awaits # "loadComments")
                => tasks[i].awaits = "sendAffiliateMessage"
          /\ (tasks'[i].awaits = "fetchLeads" /\ tasks[i].awaits # "fetchLeads")
                => tasks[i].awaits = "loadComments"
          /\ (tasks'[i].awaits = "done" /\ tasks[i].awaits # "done")
                => ~isSendingMessage'
      ]_vars

\* A send succeeded, its comments and then its list came, and the call
\* ended: the draft is empty, the flag is false, the list is the one the
\* call was given.
SendRefetchedBoth ==
    \E i \in SendCalls :
        /\ LoadedList(i)
        /\ tasks[i].got[1].data = <<LeadB, LeadA>>
        /\ leads = <<LeadB, LeadA>>
        /\ messageText = <<>>
        /\ ~isSendingMessage
        /\ \A k \in 1..Len(tasks) : tasks[k].awaits = "done"

\* The comments on display belong to the selected lead and none are on
\* their way for it.
CommentsOfSelectedLead ==
    /\ \A k \in 1..Len(comments) : comments[k].lead = selectedLead
    /\ \A i \in 1..Len(tasks) :
          tasks[i].awaits = "loadComments" => tasks[i].lead # selectedLead

\* C19: whenever the open detail panel is not loading, the comments it
\* displays were loaded for the selected lead, and no load for the
\* selected lead is pending.
CommentsBelongToSelectedLead ==
    (SheetShown /\ ~isCommentsLoading) => CommentsOfSelectedLead

\* The calls whose create request is in flight.
SendsInFlight ==
    {i \in 1..Len(tasks) : tasks[i].awaits = "sendAffiliateMessage"}

\* C20: at most one create request of the detail panel is in flight.
AtMostOneSendInFlight ==
    \A i, j \in SendsInFlight : i = j

----------------------------------------------------------------------------
(* Properties of LeadForm (SpecForm).                                      *)

\* A string with no white space at either end.
IsTrimmed(s) ==
    s = <<>> \/ (s[1] \notin WhiteSpace /\ s[Len(s)] \notin WhiteSpace)

\* The form holds white space or nothing in a required field.
RequiredFieldBlank ==
    \/ \A k \in 1..Len(formData.name) : formData.name[k] \in WhiteSpace
    \/ \A k \in 1..Len(formData.affiliateEmail) :
          formData.affiliateEmail[k] \in WhiteSpace

\* The calls of handleSubmit whose createLead is in flight.
CreatesInFlight ==
    {i \in 1..Len(tasks) :
        tasks[i].kind = "handleSubmit" /\ tasks[i].awaits = "createLead"}

\* A call of handleSubmit is made in this step.
Submits ==
    /\ Len(tasks') = Len(tasks) + 1
    /\ tasks'[Len(tasks')].kind = "handleSubmit"

\* C13: a submit of a form whose name or affiliate email is blank after
\* trimming returns with no createLead called and the lead list, the
\* form and the error as they were; any other submit calls createLead
\* with the six fields of the form trimmed; and the input of every
\* createLead in flight has all its fields trimmed and a name and an
\* affiliate email that are not empty.
BlankSubmissionRejected ==
    [][/\ (Submits /\ RequiredFieldBlank) =>
             /\ tasks'[Len(tasks')].awaits = "returned"
             /\ {i \in 1..Len(tasks') :
                    tasks'[i].kind = "handleSubmit"
                    /\ tasks'[i].awaits = "createLead"} = CreatesInFlight
             /\ leads' = leads
             /\ formData' = formData
             /\ appError' = appError
             /\ isSubmitting' = isSubmitting
       /\ (Submits /\ ~RequiredFieldBlank) =>
             /\ tasks'[Len(tasks')].awaits = "createLead"
             /\ \A field \in FieldNames :
                   tasks'[Len(tasks')].input[field] = Trim(formData[field])
       /\ \A i \in 1..Len(tasks') :
             (tasks'[i].kind = "handleSubmit" /\ tasks'[i].awaits = "createLead")
                => /\ \A field \in FieldNames : IsTrimmed(tasks'[i].input[field])
                   /\ tasks'[i].input.name # <<>>
                   /\ tasks'[i].input.affiliateEmail # <<>>
      ]_vars

\* A form with a name of white space only was submitted and returned at
\* once, and a form with text around white space went to createLead
\* trimmed.
BlankNameSubmitted ==
    /\ formData.name = <<" ">>
    /\ formData.affiliateEmail = <<"a", "@", "b", " ">>
    /\ leads = <<LeadC, LeadA>>
    /\ \E i, j \in 1..Len(tasks) :
          /\ tasks[i].kind = "handleSubmit"
          /\ tasks[i].awaits = "done"
          /\ tasks[i].got = <<Resolved(LeadC)>>
          /\ j = Len(tasks)
          /\ i < j
          /\ tasks[j].kind = "handleSubmit"
          /\ tasks[j].awaits = "returned"

\* Call j of handleSubmit was given the created lead, which was prepended
\* to the list, after call i of loadLeads was made.
CreatedAfter(i, j) ==
    /\ i < j
    /\ tasks[i].kind = "loadLeads"
    /\ tasks[j].kind = "handleSubmit"
    /\ tasks[j].awaits = "done"
    /\ tasks[j].got = <<Resolved(LeadC)>>

\* C21: when the response of a list load arrives, a lead that was created
\* and prepended after that load was requested, and is on display, stays
\* on display.
CreatedLeadSurvivesStaleLoad ==
    [][\A i, j \in 1..Len(tasks) :
          (CreatedAfter(i, j) /\ LoadSettles(i) /\ LeadC \in Range(leads))
             => LeadC \in Range(leads')
      ]_vars

=============================================================================
